---- MODULE Spec2Model ----
(***************************************************************************)
(* A model of cy-bee's ingestion / indexing / query pipeline:              *)
(*   - rag/csv_loader.rs   the document normalizer (pure operators and a   *)
(*                         directory walk, LoaderSpec)                     *)
(*   - rag/embeddings.rs   VectorIndex::from_documents / search and        *)
(*                         generate_rag_response                           *)
(*   - state.rs, commands/ingest.rs, commands/query.rs                     *)
(*                         AppState behind four tokio RwLocks and the      *)
(*                         async commands that run concurrently (Spec)     *)
(***************************************************************************)
EXTENDS Integers, Sequences, FiniteSets, TLC

(***************************************************************************)
(* Option<T>: None is the empty tuple, Some(x) the one-element tuple.      *)
(***************************************************************************)
None == <<>>

Some(x) == <<x>>

IsSome(o) == Len(o) = 1

Unwrap(o) == o[1]

(***************************************************************************)
(* Text.  A field value is a sequence of characters.  Three characters     *)
(* are enough to tell the code's tests apart: " " is ASCII white space,    *)
(* "u" stands for a white-space character outside ASCII (U+00A0), which    *)
(* str::trim removes and u8::is_ascii_whitespace does not recognise, and   *)
(* "a" is any other character.                                             *)
(***************************************************************************)
IsWhitespace(c) == c \in {" ", "u"}

IsAsciiWhitespace(c) == c = " "

RECURSIVE TrimStart(_)
TrimStart(s) ==
    IF s = <<>> THEN <<>>
    ELSE IF IsWhitespace(Head(s)) THEN TrimStart(Tail(s)) ELSE s

RECURSIVE TrimEnd(_)
TrimEnd(s) ==
    IF s = <<>> THEN <<>>
    ELSE IF IsWhitespace(s[Len(s)]) THEN TrimEnd(SubSeq(s, 1, Len(s) - 1)) ELSE s

\* str::trim
Trim(s) == TrimEnd(TrimStart(s))

\* str::to_lowercase on the extensions the model uses
ToLowercase(ext) ==
    CASE ext = "CSV" -> "csv"
      [] ext = "XLSX" -> "xlsx"
      [] OTHER -> ext

(***************************************************************************)
(* csv_loader.rs                                                           *)
(*                                                                         *)
(* A directory is the sequence of entries fs::read_dir yields.  An entry   *)
(* is [stem, ext, open, headers, records, sheets]:                         *)
(*   open     whether the reader / workbook can be opened                  *)
(*   headers  the CSV header record                                        *)
(*   records  the CSV records: [ok, fields], ok = FALSE for a read error   *)
(*   sheets   the workbook's sheets: [name, readable, rows]; the first     *)
(*            row of a sheet is its header row                             *)
(***************************************************************************)
FileName(entry) == <<entry.stem, entry.ext>>

\* format!("doc_{}", *doc_id)
DocIdString(n) == <<"doc_", n>>

\* faulty variant: a pair pushed for a blank value too
RECURSIVE RowPartsKeepsBlank(_, _, _)
RowPartsKeepsBlank(headers, values, i) ==
    IF i > Len(headers) THEN <<>>
    ELSE LET rest == RowPartsKeepsBlank(headers, values, i + 1)
         IN  IF i <= Len(values)
             THEN <<(<<headers[i], Trim(values[i])>>)>> \o rest
             ELSE rest

\* the "{}: {}" pairs of one row, for header positions 1..Len(headers)
RECURSIVE RowParts(_, _, _)
RowParts(headers, values, i) ==
    IF i > Len(headers) THEN <<>>
    ELSE LET rest == RowParts(headers, values, i + 1)
         IN  IF i <= Len(values) /\ Trim(values[i]) # <<>>
             THEN <<(<<headers[i], Trim(values[i])>>)>> \o rest
             ELSE rest

\* A formatted text is the record of what was formatted into it.
\* String::new()
EmptyString == [from |-> <<>>, sheet |-> None, row |-> 0, parts |-> <<>>]

\* flatten_row_to_string: "From {}, Row {}: {}"
FlattenRowToString(filename, row_number, headers, record) ==
    LET parts == RowParts(headers, record, 1)
    IN  IF parts = <<>> THEN EmptyString
        ELSE [from |-> filename, sheet |-> None, row |-> row_number, parts |-> parts]

\* flatten_excel_row_to_string: "From {} [Sheet: {}], Row {}: {}"
FlattenExcelRowToString(filename, sheet_name, row_number, headers, values) ==
    LET parts == RowParts(headers, values, 1)
    IN  IF parts = <<>> THEN EmptyString
        ELSE [from |-> filename, sheet |-> Some(sheet_name), row |-> row_number,
              parts |-> parts]

\* content.trim().is_empty(): a non-empty content starts with "From"
ContentTrimIsEmpty(content) == content = EmptyString

\* source_file of a CSV document: the file name
CsvSourceFile(filename) == [file |-> filename, sheet |-> None]

\* source_file of a workbook document: format!("{} ({})", filename, sheet_name)
ExcelSourceFile(filename, sheet_name) == [file |-> filename, sheet |-> Some(sheet_name)]

\* has_meaningful_content
HasMeaningfulContent(record) ==
    \E i \in 1..Len(record) :
        /\ record[i] # <<>>
        /\ \E j \in 1..Len(record[i]) : ~IsAsciiWhitespace(record[i][j])

\* a field with a character that is not white space
NonBlank(field) == \E j \in 1..Len(field) : ~IsWhitespace(field[j])

\* a data row with a non-blank field, at any position
HasNonBlankField(row) == \E i \in 1..Len(row) : NonBlank(row[i])

\* a data row with a non-blank field at a position that has a header
HasLabelledNonBlankField(headers, row) ==
    \E i \in 1..Len(row) : i <= Len(headers) /\ NonBlank(row[i])

\* what a parser returns: Err, or Ok(documents) with the advanced doc_id
ParseErr(doc_id) == [err |-> TRUE, documents |-> <<>>, doc_id |-> doc_id]

ParseOk(documents, doc_id) == [err |-> FALSE, documents |-> documents, doc_id |-> doc_id]

\* faulty variant: doc_id advanced for every record, skipped or not
CsvRecordStepCountsSkipped(acc, filename, headers, row_idx, result) ==
    IF acc.err THEN acc
    ELSE IF ~result.ok THEN ParseErr(acc.doc_id)
    ELSE LET row_number == row_idx + 1
             content == FlattenRowToString(filename, row_number, headers, result.fields)
         IN  IF ContentTrimIsEmpty(content) \/ ~HasMeaningfulContent(result.fields)
             THEN ParseOk(acc.documents, acc.doc_id + 1)
             ELSE ParseOk(Append(acc.documents,
                                 [id |-> DocIdString(acc.doc_id),
                                  content |-> content,
                                  source_file |-> CsvSourceFile(filename),
                                  row_number |-> row_number]),
                          acc.doc_id + 1)

\* parse_csv_file, one pass of its records loop (row_idx counts from 0)
CsvRecordStep(acc, filename, headers, row_idx, result) ==
    IF acc.err THEN acc
    ELSE IF ~result.ok THEN ParseErr(acc.doc_id)
    ELSE LET row_number == row_idx + 1
             content == FlattenRowToString(filename, row_number, headers, result.fields)
         IN  IF ContentTrimIsEmpty(content) \/ ~HasMeaningfulContent(result.fields)
             THEN acc
             ELSE ParseOk(Append(acc.documents,
                                 [id |-> DocIdString(acc.doc_id),
                                  content |-> content,
                                  source_file |-> CsvSourceFile(filename),
                                  row_number |-> row_number]),
                          acc.doc_id + 1)

RECURSIVE CsvRecordsLoop(_, _, _, _, _)
CsvRecordsLoop(acc, filename, headers, records, row_idx) ==
    IF row_idx >= Len(records) THEN acc
    ELSE CsvRecordsLoop(CsvRecordStep(acc, filename, headers, row_idx, records[row_idx + 1]),
                        filename, headers, records, row_idx + 1)

\* parse_csv_file up to its records loop: the reader or the header record
\* cannot be read ("Err"), the header record is empty ("Empty"), or the
\* records follow ("Records")
CsvHeaderStage(entry) ==
    IF ~entry.open THEN "Err"
    ELSE IF entry.headers = <<>> THEN "Empty"
    ELSE "Records"

\* parse_csv_file
ParseCsvFile(entry, filename, doc_id) ==
    IF CsvHeaderStage(entry) = "Err" THEN ParseErr(doc_id)
    ELSE IF CsvHeaderStage(entry) = "Empty" THEN ParseOk(<<>>, doc_id)
    ELSE CsvRecordsLoop(ParseOk(<<>>, doc_id), filename, entry.headers, entry.records, 0)

\* parse_excel_file, one pass of its rows loop (row_idx counts from 0)
ExcelRowStep(acc, filename, sheet_name, headers, row_idx, values) ==
    LET row_number == row_idx + 2
        content == FlattenExcelRowToString(filename, sheet_name, row_number, headers, values)
    IN  IF ContentTrimIsEmpty(content)
        THEN acc
        ELSE ParseOk(Append(acc.documents,
                            [id |-> DocIdString(acc.doc_id),
                             content |-> content,
                             source_file |-> ExcelSourceFile(filename, sheet_name),
                             row_number |-> row_number]),
                     acc.doc_id + 1)

RECURSIVE ExcelRowsLoop(_, _, _, _, _, _)
ExcelRowsLoop(acc, filename, sheet_name, headers, rows, row_idx) ==
    IF row_idx >= Len(rows) THEN acc
    ELSE ExcelRowsLoop(ExcelRowStep(acc, filename, sheet_name, headers, row_idx, rows[row_idx + 1]),
                       filename, sheet_name, headers, rows, row_idx + 1)

\* parse_excel_file, the head of one pass of its sheets loop: the sheet is
\* passed over ("Skip": worksheet_range is not Ok, there is no first row, or
\* the header row is empty) or its rows follow ("Rows")
ExcelSheetStage(sheet) ==
    IF ~sheet.readable THEN "Skip"
    ELSE IF sheet.rows = <<>> THEN "Skip"
    ELSE IF Head(sheet.rows) = <<>> THEN "Skip"
    ELSE "Rows"

\* parse_excel_file, one pass of its sheets loop
ExcelSheetStep(acc, filename, sheet) ==
    IF ExcelSheetStage(sheet) = "Skip" THEN acc
    ELSE ExcelRowsLoop(acc, filename, sheet.name, Head(sheet.rows), Tail(sheet.rows), 0)

RECURSIVE ExcelSheetsLoop(_, _, _, _)
ExcelSheetsLoop(acc, filename, sheets, i) ==
    IF i > Len(sheets) THEN acc
    ELSE ExcelSheetsLoop(ExcelSheetStep(acc, filename, sheets[i]), filename, sheets, i + 1)

\* parse_excel_file
ParseExcelFile(entry, filename, doc_id) ==
    IF ~entry.open THEN ParseErr(doc_id)
    ELSE ExcelSheetsLoop(ParseOk(<<>>, doc_id), filename, entry.sheets, 1)

ExcelExtensions == {"xlsx", "xls", "xlsm", "xlsb"}

\* the match on the lower-cased extension
EntryKind(entry) ==
    LET extension == ToLowercase(entry.ext)
    IN  IF extension = "csv" THEN "csv"
        ELSE IF extension \in ExcelExtensions THEN "excel"
        ELSE "skip"

\* load_csvs_from_directory, one pass of its read_dir loop: acc is
\* [err, documents, doc_id] with documents = all_documents
LoadEntryStep(acc, entry) ==
    IF acc.err THEN acc
    ELSE LET r == IF EntryKind(entry) = "csv"
                  THEN ParseCsvFile(entry, FileName(entry), acc.doc_id)
                  ELSE ParseExcelFile(entry, FileName(entry), acc.doc_id)
         IN  IF EntryKind(entry) = "skip" THEN acc
             ELSE IF r.err THEN ParseErr(r.doc_id)
             ELSE ParseOk(acc.documents \o r.documents, r.doc_id)

RECURSIVE LoadEntriesLoop(_, _, _)
LoadEntriesLoop(acc, entries, i) ==
    IF i > Len(entries) THEN acc
    ELSE LoadEntriesLoop(LoadEntryStep(acc, entries[i]), entries, i + 1)

\* load_csvs_from_directory: a path is [exists, is_dir, entries]
LoadCsvsFromDirectory(path) ==
    IF ~path.exists THEN ParseErr(0)
    ELSE IF ~path.is_dir THEN ParseErr(0)
    ELSE LoadEntriesLoop(ParseOk(<<>>, 0), path.entries, 1)


(***************************************************************************)
(* embeddings.rs                                                           *)
(***************************************************************************)
\* EmbeddableDocument::from(CsvDocument): the same four fields
EmbeddableFrom(doc) ==
    [id |-> doc.id, content |-> doc.content,
     source_file |-> doc.source_file, row_number |-> doc.row_number]

RECURSIVE MapEmbeddable(_)
MapEmbeddable(docs) ==
    IF docs = <<>> THEN <<>>
    ELSE <<EmbeddableFrom(Head(docs))>> \o MapEmbeddable(Tail(docs))

\* the VectorIndex from_documents returns once every document is embedded
BuiltIndex(documents) == [store |-> MapEmbeddable(documents)]

\* const TOP_K_RESULTS
TOP_K_RESULTS == 5

Min(a, b) == IF a < b THEN a ELSE b

\* the sequences without repeats of length n over the elements of seq
RECURSIVE Arrangements(_, _)
Arrangements(S, n) ==
    IF n = 0 THEN {<<>>}
    ELSE UNION {{<<x>> \o rest : rest \in Arrangements(S \ {x}, n - 1)} : x \in S}

\* VectorIndex::search when the embedding service answers: the top_k stored
\* documents, most similar first; the similarity order is the service's.
\* top_n is the vector store's: it may also return nothing, the case
\* ask_question provides for.
SearchResults(index, top_k) ==
    LET docs == {index.store[i] : i \in 1..Len(index.store)}
    IN  Arrangements(docs, Min(top_k, Cardinality(docs))) \cup {<<>>}

\* generate_rag_response: the citation of one document
SourceString(doc) == [source_file |-> doc.source_file, row |-> doc.row_number]

\* faulty variant: the citations collected last document first
RECURSIVE SourcesReversed(_)
SourcesReversed(context_docs) ==
    IF context_docs = <<>> THEN <<>>
    ELSE SourcesReversed(Tail(context_docs)) \o <<SourceString(Head(context_docs))>>

RECURSIVE Sources(_)
Sources(context_docs) ==
    IF context_docs = <<>> THEN <<>>
    ELSE <<SourceString(Head(context_docs))>> \o Sources(Tail(context_docs))

(***************************************************************************)
(* The file system the commands run against: one path per case of          *)
(* load_csvs_from_directory.                                               *)
(***************************************************************************)
CsvEntry(stem, ext, open, headers, records) ==
    [stem |-> stem, ext |-> ext, open |-> open, headers |-> headers,
     records |-> records, sheets |-> <<>>]

ExcelEntry(stem, ext, open, sheets) ==
    [stem |-> stem, ext |-> ext, open |-> open, headers |-> <<>>,
     records |-> <<>>, sheets |-> sheets]

OtherEntry(stem, ext) ==
    [stem |-> stem, ext |-> ext, open |-> TRUE, headers |-> <<>>,
     records |-> <<>>, sheets |-> <<>>]

OkRecord(fields) == [ok |-> TRUE, fields |-> fields]

BadRecord == [ok |-> FALSE, fields |-> <<>>]

Sheet(name, readable, rows) == [name |-> name, readable |-> readable, rows |-> rows]

Dir(entries) == [exists |-> TRUE, is_dir |-> TRUE, entries |-> entries]

Folders == {"A", "B", "E", "X", "F", "P", "U"}

FS(folder) ==
    CASE folder = "A" ->
           Dir(<<CsvEntry("a", "csv", TRUE, <<"h1", "h2">>,
                          <<OkRecord(<<(<<"a">>), <<>> >>),
                            OkRecord(<<(<<" ">>), <<>> >>),
                            OkRecord(<<(<<>>), <<" ", "a">> >>)>>)>>)
      [] folder = "B" ->
           Dir(<<OtherEntry("notes", "txt"),
                 ExcelEntry("b", "xlsx", TRUE,
                            <<Sheet("S1", TRUE, <<(<<"h1">>), <<(<<"a">>)>> >>)>>)>>)
      [] folder = "E" ->
           Dir(<<CsvEntry("e", "csv", TRUE, <<"h1">>, <<OkRecord(<<(<<" ">>)>>)>>)>>)
      [] folder = "X" -> [exists |-> FALSE, is_dir |-> FALSE, entries |-> <<>>]
      [] folder = "F" -> [exists |-> TRUE, is_dir |-> FALSE, entries |-> <<>>]
      [] folder = "P" ->
           Dir(<<CsvEntry("p", "csv", TRUE, <<"h1">>, <<OkRecord(<<(<<"a">>)>>), BadRecord>>)>>)
      [] folder = "U" ->
           Dir(<<ExcelEntry("u", "xlsx", TRUE,
                            <<Sheet("S1", FALSE, <<>>),
                              Sheet("S2", TRUE, <<(<<"h1">>), <<(<<"a">>)>> >>)>>)>>)

\* a supported file of the directory, a record of it or a sheet of it cannot
\* be read
UnreadablePart(path) ==
    \E i \in 1..Len(path.entries) :
        LET entry == path.entries[i]
        IN  \/ /\ EntryKind(entry) = "csv"
               /\ \/ ~entry.open
                  \/ \E j \in 1..Len(entry.records) : ~entry.records[j].ok
            \/ /\ EntryKind(entry) = "excel"
               /\ \/ ~entry.open
                  \/ \E j \in 1..Len(entry.sheets) : ~entry.sheets[j].readable

(***************************************************************************)
(* state.rs and the commands.                                              *)
(*                                                                         *)
(* AppState is four values, each behind its own tokio RwLock.  A command   *)
(* is an async task; tasks interleave at their .await points.              *)
(***************************************************************************)
Ingesters == {"i1", "i2"}

StatusReaders == {"s1"}

Askers == {"q1"}

ModelSetters == {"m1"}

Models == {"llama3", "mistral"}

Queries == {"why"}

Locks == {"vector_index", "selected_model", "data_folder", "document_count"}

VARIABLES
    vector_index,      \* AppState.vector_index: Option<VectorIndex>
    selected_model,    \* AppState.selected_model
    data_folder,       \* AppState.data_folder: Option<String>
    document_count,    \* AppState.document_count
    lock_writer,       \* per RwLock: the task holding the write guard, if any
    lock_readers,      \* per RwLock: the tasks holding a read guard
    ingest,            \* per ingest_csvs task: its position and locals
    status,            \* per get_status task
    ask,               \* per ask_question task
    setter,            \* per set_chat_model task
    l_pc,              \* load_csvs_from_directory walked entry by entry:
    all_documents,     \*   its position and locals
    doc_id,
    documents,
    filename,
    headers,
    sheet_idx,
    row_idx,
    entries_read,
    records_read,
    load_result,
    rows_seen          \* history: the data rows read so far, counted

appVars == <<vector_index, selected_model, data_folder, document_count>>

lockVars == <<lock_writer, lock_readers>>

taskVars == <<ingest, status, ask, setter>>

loaderVars == <<l_pc, all_documents, doc_id, documents, filename, headers,
                sheet_idx, row_idx, entries_read, records_read, load_result,
                rows_seen>>

vars == <<appVars, lockVars, taskVars, loaderVars>>

\* faulty variant: a write guard handed out while read guards are still out
CanWriteIgnoringReaders(lock) == lock_writer[lock] = None

\* RwLock::write resolves when no guard is out
CanWrite(lock) == lock_writer[lock] = None /\ lock_readers[lock] = {}

\* the tasks queued in lock.write().await
WriteWaiters(lock) ==
    {p \in Ingesters :
        \/ lock = "vector_index" /\ ingest[p].pc = "lock_index"
        \/ lock = "data_folder" /\ ingest[p].pc = "lock_folder"
        \/ lock = "document_count" /\ ingest[p].pc = "lock_count"}
    \cup {m \in ModelSetters : lock = "selected_model" /\ setter[m].pc = "lock_model"}

\* RwLock::read resolves when no write guard is out and no writer is queued
\* (tokio's RwLock is fair: a queued writer goes before later readers)
CanRead(lock) == lock_writer[lock] = None /\ WriteWaiters(lock) = {}

\* the snapshot (Index + folder + count) as the three fields hold it
Snapshot == <<vector_index, data_folder, document_count>>

\* the four fields of AppState
AppValues == <<vector_index, data_folder, document_count, selected_model>>

\* what get_status reports of a snapshot
TripleOf(snap) == <<IsSome(snap[1]), snap[3], snap[2]>>

\* load_csvs_from_directory on each path of the file system
Loaded == [folder \in Folders |-> LoadCsvsFromDirectory(FS(folder))]

\* the snapshot an ingest of folder installs when it succeeds
SnapshotOf(folder) ==
    <<Some(BuiltIndex(Loaded[folder].documents)), Some(folder), Len(Loaded[folder].documents)>>

\* whether folder loads to at least one document
Ingestable(folder) == ~Loaded[folder].err /\ Loaded[folder].documents # <<>>

IdleIngest ==
    [pc |-> "idle", folder_path |-> None, documents |-> <<>>, embedded |-> 0,
     index |-> None, result |-> None, pre |-> None, clean |-> FALSE,
     model_clean |-> FALSE]

IdleStatus ==
    [pc |-> "idle", is_indexed |-> FALSE, document_count |-> 0, data_folder |-> None,
     result |-> None, overlap |-> "none", old |-> None, new |-> None]

IdleAsk ==
    [pc |-> "idle", query |-> None, index |-> None, relevant_docs |-> <<>>,
     model_name |-> None, contacted |-> FALSE, after_ingest |-> FALSE, result |-> None,
     retrieved |-> None, prompted |-> FALSE]

IdleSetter == [pc |-> "idle", model_name |-> None, result |-> None]

\* AppState::new
Init ==
    /\ vector_index = None
    /\ selected_model = "llama3"
    /\ data_folder = None
    /\ document_count = 0
    /\ lock_writer = [l \in Locks |-> None]
    /\ lock_readers = [l \in Locks |-> {}]
    /\ ingest = [p \in Ingesters |-> IdleIngest]
    /\ status = [s \in StatusReaders |-> IdleStatus]
    /\ ask = [q \in Askers |-> IdleAsk]
    /\ setter = [m \in ModelSetters |-> IdleSetter]
    /\ l_pc = "start"
    /\ all_documents = <<>>
    /\ doc_id = 0
    /\ documents = <<>>
    /\ filename = None
    /\ headers = <<>>
    /\ sheet_idx = 0
    /\ row_idx = 0
    /\ entries_read = 0
    /\ records_read = 0
    /\ load_result = None
    /\ rows_seen = [nonblank |-> 0, labelled |-> 0]


(***************************************************************************)
(* commands/ingest.rs: ingest_csvs                                         *)
(***************************************************************************)
IngestErr(stage) ==
    [tag |-> "Err", error |-> stage, success |-> FALSE,
     documents_ingested |-> 0, files_processed |-> 0]

IngestOk(success, doc_count, file_count) ==
    [tag |-> "Ok", error |-> "", success |-> success,
     documents_ingested |-> doc_count, files_processed |-> file_count]

\* the HashSet of source_file values, counted
FileCount(docs) == Cardinality({docs[i].source_file : i \in 1..Len(docs)})

\* the task returns res: its locals are dropped
Finished(p, res) ==
    [ingest[p] EXCEPT !.pc = "done", !.result = Some(res), !.documents = <<>>,
                      !.embedded = 0, !.index = None]

\* bookkeeping: the ingest calls in flight other than p saw p write AppState
Disturbed(p, mine) ==
    [q \in Ingesters |->
        IF q = p THEN mine
        ELSE IF ingest[q].pc # "idle" THEN [ingest[q] EXCEPT !.clean = FALSE]
        ELSE ingest[q]]

\* bookkeeping: a get_status call in flight sees an ingest call of folder begin
Overlapped(st, folder) ==
    IF st.pc \in {"idle", "done"} THEN st
    ELSE IF st.overlap = "none"
    THEN [st EXCEPT !.overlap = "one",
                    !.new = Some(TripleOf(IF Ingestable(folder) THEN SnapshotOf(folder)
                                          ELSE Snapshot))]
    ELSE [st EXCEPT !.overlap = "many"]

IngestCall(p) ==
    /\ ingest[p].pc = "idle"
    /\ \E folder \in Folders :
          /\ ingest' = [ingest EXCEPT ![p] =
                           [IdleIngest EXCEPT !.pc = "load", !.folder_path = Some(folder),
                                              !.pre = Some(AppValues), !.clean = TRUE,
                                              !.model_clean = TRUE]]
          /\ status' = [s \in StatusReaders |-> Overlapped(status[s], folder)]
    /\ UNCHANGED <<appVars, lockVars, ask, setter, loaderVars>>

\* faulty variant: the folder recorded as soon as the load begins
IngestLoadRecordsFolder(p) ==
    /\ ingest[p].pc = "load"
    /\ LET r == Loaded[Unwrap(ingest[p].folder_path)]
       IN  ingest' = [ingest EXCEPT ![p] =
                         IF r.err THEN Finished(p, IngestErr("load"))
                         ELSE IF Len(r.documents) = 0 THEN Finished(p, IngestOk(FALSE, 0, 0))
                         ELSE [@ EXCEPT !.pc = "build", !.documents = r.documents]]
    /\ data_folder' = ingest[p].folder_path
    /\ UNCHANGED <<vector_index, selected_model, document_count, lockVars, status, ask,
                   setter, loaderVars>>

\* faulty variant: an empty load clears the installed snapshot
IngestLoadClearsOnEmpty(p) ==
    /\ ingest[p].pc = "load"
    /\ LET r == Loaded[Unwrap(ingest[p].folder_path)]
       IN  /\ ingest' = [ingest EXCEPT ![p] =
                             IF r.err THEN Finished(p, IngestErr("load"))
                             ELSE IF Len(r.documents) = 0
                             THEN Finished(p, IngestOk(FALSE, 0, 0))
                             ELSE [@ EXCEPT !.pc = "build", !.documents = r.documents]]
           /\ IF ~r.err /\ Len(r.documents) = 0
              THEN /\ vector_index' = None
                   /\ data_folder' = None
                   /\ document_count' = 0
              ELSE UNCHANGED <<vector_index, data_folder, document_count>>
    /\ UNCHANGED <<selected_model, lockVars, status, ask, setter, loaderVars>>

\* lines 14-26: load the documents; an error and an empty result both return
IngestLoad(p) ==
    /\ ingest[p].pc = "load"
    /\ LET r == Loaded[Unwrap(ingest[p].folder_path)]
       IN  ingest' = [ingest EXCEPT ![p] =
                         IF r.err THEN Finished(p, IngestErr("load"))
                         ELSE IF Len(r.documents) = 0 THEN Finished(p, IngestOk(FALSE, 0, 0))
                         ELSE [@ EXCEPT !.pc = "build", !.documents = r.documents]]
    /\ UNCHANGED <<appVars, lockVars, status, ask, setter, loaderVars>>

\* lines 35-38, VectorIndex::from_documents: the embedding service embeds
\* the documents, or fails; the index exists once all are embedded
IngestEmbed(p) ==
    /\ ingest[p].pc = "build"
    /\ \E ok \in BOOLEAN :
          ingest' = [ingest EXCEPT ![p] =
                        IF ~ok \/ ingest[p].documents = <<>>
                        THEN Finished(p, IngestErr("build"))
                        ELSE IF ingest[p].embedded + 1 < Len(ingest[p].documents)
                        THEN [@ EXCEPT !.embedded = @ + 1]
                        ELSE [@ EXCEPT !.embedded = @ + 1, !.pc = "lock_index",
                                       !.index = Some(BuiltIndex(ingest[p].documents))]]
    /\ UNCHANGED <<appVars, lockVars, status, ask, setter, loaderVars>>

\* state.vector_index.write().await
IngestLockIndex(p) ==
    /\ ingest[p].pc = "lock_index"
    /\ CanWrite("vector_index")
    /\ lock_writer' = [lock_writer EXCEPT !["vector_index"] = Some(p)]
    /\ ingest' = [ingest EXCEPT ![p].pc = "write_index"]
    /\ UNCHANGED <<appVars, lock_readers, status, ask, setter, loaderVars>>

\* faulty variant: the slot is written, but not with the new index
IngestWriteIndexLost(p) ==
    /\ ingest[p].pc = "write_index"
    /\ vector_index' = None
    /\ lock_writer' = [lock_writer EXCEPT !["vector_index"] = None]
    /\ ingest' = Disturbed(p, [ingest[p] EXCEPT !.pc = "lock_folder"])
    /\ UNCHANGED <<selected_model, data_folder, document_count, lock_readers,
                   status, ask, setter, loaderVars>>

\* faulty variant: the new documents added to the installed index
IngestWriteIndexMerges(p) ==
    /\ ingest[p].pc = "write_index"
    /\ vector_index' =
          IF IsSome(vector_index)
          THEN Some([store |-> Unwrap(vector_index).store \o Unwrap(ingest[p].index).store])
          ELSE ingest[p].index
    /\ lock_writer' = [lock_writer EXCEPT !["vector_index"] = None]
    /\ ingest' = Disturbed(p, [ingest[p] EXCEPT !.pc = "lock_folder"])
    /\ UNCHANGED <<selected_model, data_folder, document_count, lock_readers,
                   status, ask, setter, loaderVars>>

\* *idx = Some(index); the guard drops at the end of the block
IngestWriteIndex(p) ==
    /\ ingest[p].pc = "write_index"
    /\ vector_index' = ingest[p].index
    /\ lock_writer' = [lock_writer EXCEPT !["vector_index"] = None]
    /\ ingest' = Disturbed(p, [ingest[p] EXCEPT !.pc = "lock_folder"])
    /\ UNCHANGED <<selected_model, data_folder, document_count, lock_readers,
                   status, ask, setter, loaderVars>>

\* state.data_folder.write().await
IngestLockFolder(p) ==
    /\ ingest[p].pc = "lock_folder"
    /\ CanWrite("data_folder")
    /\ lock_writer' = [lock_writer EXCEPT !["data_folder"] = Some(p)]
    /\ ingest' = [ingest EXCEPT ![p].pc = "write_folder"]
    /\ UNCHANGED <<appVars, lock_readers, status, ask, setter, loaderVars>>

\* *folder = Some(folder_path)
IngestWriteFolder(p) ==
    /\ ingest[p].pc = "write_folder"
    /\ data_folder' = ingest[p].folder_path
    /\ lock_writer' = [lock_writer EXCEPT !["data_folder"] = None]
    /\ ingest' = Disturbed(p, [ingest[p] EXCEPT !.pc = "lock_count"])
    /\ UNCHANGED <<vector_index, selected_model, document_count, lock_readers,
                   status, ask, setter, loaderVars>>

\* state.document_count.write().await
IngestLockCount(p) ==
    /\ ingest[p].pc = "lock_count"
    /\ CanWrite("document_count")
    /\ lock_writer' = [lock_writer EXCEPT !["document_count"] = Some(p)]
    /\ ingest' = [ingest EXCEPT ![p].pc = "write_count"]
    /\ UNCHANGED <<appVars, lock_readers, status, ask, setter, loaderVars>>

\* *count = doc_count; then Ok(IngestResult { success: true, .. })
IngestWriteCount(p) ==
    /\ ingest[p].pc = "write_count"
    /\ document_count' = Len(ingest[p].documents)
    /\ lock_writer' = [lock_writer EXCEPT !["document_count"] = None]
    /\ ingest' = Disturbed(p, Finished(p, IngestOk(TRUE, Len(ingest[p].documents),
                                                   FileCount(ingest[p].documents))))
    /\ UNCHANGED <<vector_index, selected_model, data_folder, lock_readers,
                   status, ask, setter, loaderVars>>

\* the caller has the result; the task is gone
IngestReturn(p) ==
    /\ ingest[p].pc = "done"
    /\ ingest' = [ingest EXCEPT ![p] = IdleIngest]
    /\ UNCHANGED <<appVars, lockVars, status, ask, setter, loaderVars>>

(***************************************************************************)
(* commands/ingest.rs: get_status.  Each read takes the lock's read guard  *)
(* for the one expression and drops it.                                    *)
(***************************************************************************)
\* bookkeeping: the ingest calls in flight when the call begins
InFlight == {p \in Ingesters : ingest[p].pc # "idle"}

StatusCall(s) ==
    /\ status[s].pc = "idle"
    /\ status' = [status EXCEPT ![s] =
          IF InFlight = {}
          THEN [IdleStatus EXCEPT !.pc = "read_index", !.overlap = "none",
                                  !.old = Some(TripleOf(Snapshot)),
                                  !.new = Some(TripleOf(Snapshot))]
          ELSE IF \E p \in Ingesters : InFlight = {p} /\ ingest[p].clean
          THEN LET p == CHOOSE p \in Ingesters : InFlight = {p}
                   folder == Unwrap(ingest[p].folder_path)
                   pre == Unwrap(ingest[p].pre)
               IN  [IdleStatus EXCEPT !.pc = "read_index", !.overlap = "one",
                                      !.old = Some(TripleOf(pre)),
                                      !.new = Some(TripleOf(IF Ingestable(folder)
                                                            THEN SnapshotOf(folder)
                                                            ELSE pre))]
          ELSE [IdleStatus EXCEPT !.pc = "read_index", !.overlap = "many"]]
    /\ UNCHANGED <<appVars, lockVars, ingest, ask, setter, loaderVars>>

\* state.vector_index.read().await.is_some()
StatusReadIndex(s) ==
    /\ status[s].pc = "read_index"
    /\ CanRead("vector_index")
    /\ status' = [status EXCEPT ![s].is_indexed = IsSome(vector_index),
                                ![s].pc = "read_count"]
    /\ UNCHANGED <<appVars, lockVars, ingest, ask, setter, loaderVars>>

\* *state.document_count.read().await
StatusReadCount(s) ==
    /\ status[s].pc = "read_count"
    /\ CanRead("document_count")
    /\ status' = [status EXCEPT ![s].document_count = document_count,
                                ![s].pc = "read_folder"]
    /\ UNCHANGED <<appVars, lockVars, ingest, ask, setter, loaderVars>>

\* state.data_folder.read().await.clone()
StatusReadFolder(s) ==
    /\ status[s].pc = "read_folder"
    /\ CanRead("data_folder")
    /\ status' = [status EXCEPT ![s].data_folder = data_folder,
                                ![s].pc = "read_model"]
    /\ UNCHANGED <<appVars, lockVars, ingest, ask, setter, loaderVars>>

\* state.selected_model.read().await.clone(); then Ok(AppStatus { .. })
StatusReadModel(s) ==
    /\ status[s].pc = "read_model"
    /\ CanRead("selected_model")
    /\ status' = [status EXCEPT ![s].pc = "done",
                                ![s].result = Some([is_indexed |-> status[s].is_indexed,
                                                    document_count |-> status[s].document_count,
                                                    data_folder |-> status[s].data_folder,
                                                    selected_model |-> selected_model])]
    /\ UNCHANGED <<appVars, lockVars, ingest, ask, setter, loaderVars>>

StatusReturn(s) ==
    /\ status[s].pc = "done"
    /\ status' = [status EXCEPT ![s] = IdleStatus]
    /\ UNCHANGED <<appVars, lockVars, ingest, ask, setter, loaderVars>>


(***************************************************************************)
(* commands/query.rs: ask_question.  index_guard, the read guard of        *)
(* vector_index, lives until the function returns.                         *)
(***************************************************************************)
AskErr(kind) == [tag |-> "Err", error |-> kind, answer |-> "", sources |-> <<>>]

AskOk(answer, sources) == [tag |-> "Ok", error |-> "", answer |-> answer, sources |-> sources]

AskCall(q) ==
    /\ ask[q].pc = "idle"
    /\ \E query \in Queries :
          ask' = [ask EXCEPT ![q] = [IdleAsk EXCEPT !.pc = "lock_index", !.query = Some(query),
                                                    !.after_ingest = document_count > 0]]
    /\ UNCHANGED <<appVars, lockVars, ingest, status, setter, loaderVars>>

\* lines 17-20: take the read guard; no index is the not-indexed error
AskLockIndex(q) ==
    /\ ask[q].pc = "lock_index"
    /\ CanRead("vector_index")
    /\ IF IsSome(vector_index)
       THEN /\ lock_readers' = [lock_readers EXCEPT !["vector_index"] = @ \cup {q}]
            /\ ask' = [ask EXCEPT ![q].pc = "search", ![q].index = vector_index]
       ELSE /\ lock_readers' = lock_readers
            /\ ask' = [ask EXCEPT ![q].pc = "done", ![q].result = Some(AskErr("not_indexed"))]
    /\ UNCHANGED <<appVars, lock_writer, ingest, status, setter, loaderVars>>

\* lines 22-33: index.search(&query, TOP_K_RESULTS).await
AskSearch(q) ==
    /\ ask[q].pc = "search"
    /\ \/ /\ ask' = [ask EXCEPT ![q].pc = "done", ![q].contacted = TRUE, ![q].index = None,
                                ![q].result = Some(AskErr("search"))]
          /\ lock_readers' = [lock_readers EXCEPT !["vector_index"] = @ \ {q}]
       \/ \E docs \in SearchResults(Unwrap(vector_index), TOP_K_RESULTS) :
             IF docs = <<>>
             THEN /\ ask' = [ask EXCEPT ![q].pc = "done", ![q].contacted = TRUE,
                                        ![q].index = None, ![q].retrieved = Some(docs),
                                        ![q].result = Some(AskOk("no_relevant_information", <<>>))]
                  /\ lock_readers' = [lock_readers EXCEPT !["vector_index"] = @ \ {q}]
             ELSE /\ ask' = [ask EXCEPT ![q].pc = "read_model", ![q].contacted = TRUE,
                                        ![q].relevant_docs = docs, ![q].retrieved = Some(docs)]
                  /\ lock_readers' = lock_readers
    /\ UNCHANGED <<appVars, lock_writer, ingest, status, setter, loaderVars>>

\* line 36: state.selected_model.read().await.clone()
AskReadModel(q) ==
    /\ ask[q].pc = "read_model"
    /\ CanRead("selected_model")
    /\ ask' = [ask EXCEPT ![q].pc = "generate", ![q].model_name = Some(selected_model)]
    /\ UNCHANGED <<appVars, lockVars, ingest, status, setter, loaderVars>>

\* faulty variant: index_guard not dropped when the function returns
AskGenerateKeepsGuard(q) ==
    /\ ask[q].pc = "generate"
    /\ \E ok \in BOOLEAN :
          ask' = [ask EXCEPT ![q].pc = "done", ![q].relevant_docs = <<>>, ![q].index = None,
                             ![q].prompted = TRUE,
                             ![q].result =
                                 Some(IF ok THEN AskOk("generated", Sources(ask[q].relevant_docs))
                                      ELSE AskErr("generate"))]
    /\ UNCHANGED <<appVars, lockVars, ingest, status, setter, loaderVars>>

\* lines 39-43: generate_rag_response(..).await; index_guard drops on return
AskGenerate(q) ==
    /\ ask[q].pc = "generate"
    /\ \E ok \in BOOLEAN :
          ask' = [ask EXCEPT ![q].pc = "done", ![q].relevant_docs = <<>>, ![q].index = None,
                             ![q].prompted = TRUE,
                             ![q].result =
                                 Some(IF ok THEN AskOk("generated", Sources(ask[q].relevant_docs))
                                      ELSE AskErr("generate"))]
    /\ lock_readers' = [lock_readers EXCEPT !["vector_index"] = @ \ {q}]
    /\ UNCHANGED <<appVars, lock_writer, ingest, status, setter, loaderVars>>

AskReturn(q) ==
    /\ ask[q].pc = "done"
    /\ ask' = [ask EXCEPT ![q] = IdleAsk]
    /\ UNCHANGED <<appVars, lockVars, ingest, status, setter, loaderVars>>

(***************************************************************************)
(* commands/query.rs: set_chat_model                                       *)
(***************************************************************************)
SetCall(m) ==
    /\ setter[m].pc = "idle"
    /\ \E model_name \in Models :
          setter' = [setter EXCEPT ![m] = [IdleSetter EXCEPT !.pc = "lock_model",
                                                             !.model_name = Some(model_name)]]
    /\ UNCHANGED <<appVars, lockVars, ingest, status, ask, loaderVars>>

\* state.selected_model.write().await
SetLockModel(m) ==
    /\ setter[m].pc = "lock_model"
    /\ CanWrite("selected_model")
    /\ lock_writer' = [lock_writer EXCEPT !["selected_model"] = Some(m)]
    /\ setter' = [setter EXCEPT ![m].pc = "write_model"]
    /\ UNCHANGED <<appVars, lock_readers, ingest, status, ask, loaderVars>>

\* faulty variant: a model change that also resets the document count
SetWriteModelResetsCount(m) ==
    /\ setter[m].pc = "write_model"
    /\ selected_model' = Unwrap(setter[m].model_name)
    /\ document_count' = 0
    /\ lock_writer' = [lock_writer EXCEPT !["selected_model"] = None]
    /\ setter' = [setter EXCEPT ![m].pc = "done", ![m].result = Some("Ok")]
    /\ ingest' = [p \in Ingesters |->
                     IF ingest[p].pc # "idle" THEN [ingest[p] EXCEPT !.model_clean = FALSE]
                     ELSE ingest[p]]
    /\ UNCHANGED <<vector_index, data_folder, lock_readers, status, ask, loaderVars>>

\* *model = model_name; Ok(())
SetWriteModel(m) ==
    /\ setter[m].pc = "write_model"
    /\ selected_model' = Unwrap(setter[m].model_name)
    /\ lock_writer' = [lock_writer EXCEPT !["selected_model"] = None]
    /\ setter' = [setter EXCEPT ![m].pc = "done", ![m].result = Some("Ok")]
    /\ ingest' = [p \in Ingesters |->
                     IF ingest[p].pc # "idle" THEN [ingest[p] EXCEPT !.model_clean = FALSE]
                     ELSE ingest[p]]
    /\ UNCHANGED <<vector_index, data_folder, document_count, lock_readers,
                   status, ask, loaderVars>>

SetReturn(m) ==
    /\ setter[m].pc = "done"
    /\ setter' = [setter EXCEPT ![m] = IdleSetter]
    /\ UNCHANGED <<appVars, lockVars, ingest, status, ask, loaderVars>>

(***************************************************************************)
(* The commands, run concurrently by the Tauri runtime.                    *)
(***************************************************************************)
IngestNext(p) ==
    \/ IngestCall(p)
    \/ IngestLoad(p)
    \/ IngestEmbed(p)
    \/ IngestLockIndex(p)
    \/ IngestWriteIndex(p)
    \/ IngestLockFolder(p)
    \/ IngestWriteFolder(p)
    \/ IngestLockCount(p)
    \/ IngestWriteCount(p)
    \/ IngestReturn(p)

StatusNext(s) ==
    \/ StatusCall(s)
    \/ StatusReadIndex(s)
    \/ StatusReadCount(s)
    \/ StatusReadFolder(s)
    \/ StatusReadModel(s)
    \/ StatusReturn(s)

AskNext(q) ==
    \/ AskCall(q)
    \/ AskLockIndex(q)
    \/ AskSearch(q)
    \/ AskReadModel(q)
    \/ AskGenerate(q)
    \/ AskReturn(q)

SetNext(m) ==
    \/ SetCall(m)
    \/ SetLockModel(m)
    \/ SetWriteModel(m)
    \/ SetReturn(m)

\* the steps of a call between its entry and its return value
IngestInstall(p) ==
    \/ IngestEmbed(p)
    \/ IngestLockIndex(p)
    \/ IngestWriteIndex(p)
    \/ IngestLockFolder(p)
    \/ IngestWriteFolder(p)
    \/ IngestLockCount(p)
    \/ IngestWriteCount(p)

IngestProgress(p) == IngestLoad(p) \/ IngestInstall(p)

StatusProgress(s) ==
    \/ StatusReadIndex(s)
    \/ StatusReadCount(s)
    \/ StatusReadFolder(s)
    \/ StatusReadModel(s)

AskProgress(q) ==
    \/ AskLockIndex(q)
    \/ AskSearch(q)
    \/ AskReadModel(q)
    \/ AskGenerate(q)

SetProgress(m) ==
    \/ SetLockModel(m)
    \/ SetWriteModel(m)

(***************************************************************************)
(* csv_loader.rs as a walk: load_csvs_from_directory reads a directory     *)
(* entry by entry and record by record.  What it reads is drawn as it      *)
(* goes; the walk reads at most MaxEntries entries and MaxRecords records. *)
(***************************************************************************)
MaxEntries == 3

MaxRecords == 3

ExtSamples == {"csv", "CSV", "xlsx", "xls", "txt", ""}

HeaderSamples == {<<>>, <<"h1", "h2">>}

SheetNames == <<"S1", "S2">>

\* rows: blank, blank but for non-ASCII white space, short, padded, and
\* non-blank only past the last header
RowSamples ==
    { <<(<<" ">>)>>,
      <<(<<>>), <<"u">> >>,
      <<(<<"a">>)>>,
      <<(<<" ", "a", " ">>), <<>> >>,
      <<(<<>>), <<>>, <<"a">> >> }

RecordResults == {OkRecord(row) : row \in RowSamples} \cup {BadRecord}

\* rows_seen after one more data row
CountRow(hs, row) ==
    [nonblank |-> rows_seen.nonblank + (IF HasNonBlankField(row) THEN 1 ELSE 0),
     labelled |-> rows_seen.labelled + (IF HasLabelledNonBlankField(hs, row) THEN 1 ELSE 0)]

\* the rows of a sheet: range.rows() yields rows of the width of the range,
\* which is the width of the header row
SheetRows(hs) == {row \in RowSamples : Len(row) = Len(hs)}

LoadFailed ==
    /\ l_pc' = "done"
    /\ load_result' = Some(ParseErr(0))
    /\ all_documents' = <<>>
    /\ documents' = <<>>
    /\ filename' = None
    /\ headers' = <<>>
    /\ sheet_idx' = 0
    /\ row_idx' = 0

\* lines 23-34: the two path checks, then the empty all_documents
LoadStart ==
    /\ l_pc = "start"
    /\ \E path \in {FS("X"), FS("F"), Dir(<<>>)} :
          IF ~path.exists \/ ~path.is_dir
          THEN LoadFailed /\ UNCHANGED <<doc_id, entries_read, records_read>>
          ELSE /\ l_pc' = "dir"
               /\ all_documents' = <<>>
               /\ doc_id' = 0
               /\ UNCHANGED <<documents, filename, headers, sheet_idx, row_idx,
                              entries_read, records_read, load_result>>
    /\ UNCHANGED <<appVars, lockVars, taskVars, rows_seen>>

\* lines 37-55: the next directory entry, up to the parser's first loop
LoadDirEntry ==
    /\ l_pc = "dir"
    /\ entries_read < MaxEntries
    /\ \E ext \in ExtSamples, open \in BOOLEAN, hs \in HeaderSamples :
          LET entry == CsvEntry(ToString(entries_read + 1), ext, open, hs, <<>>)
          IN  /\ entries_read' = entries_read + 1
              /\ IF EntryKind(entry) = "skip"
                 THEN UNCHANGED <<l_pc, all_documents, documents, filename, headers,
                                  sheet_idx, row_idx, load_result>>
                 ELSE IF EntryKind(entry) = "csv"
                 THEN IF CsvHeaderStage(entry) = "Err" THEN LoadFailed
                      ELSE IF CsvHeaderStage(entry) = "Empty"
                      THEN UNCHANGED <<l_pc, all_documents, documents, filename, headers,
                                       sheet_idx, row_idx, load_result>>
                      ELSE /\ l_pc' = "csv"
                           /\ filename' = Some(FileName(entry))
                           /\ headers' = entry.headers
                           /\ documents' = <<>>
                           /\ row_idx' = 0
                           /\ UNCHANGED <<all_documents, sheet_idx, load_result>>
                 ELSE IF ~entry.open THEN LoadFailed
                      ELSE /\ l_pc' = "sheets"
                           /\ filename' = Some(FileName(entry))
                           /\ documents' = <<>>
                           /\ sheet_idx' = 0
                           /\ UNCHANGED <<all_documents, headers, row_idx, load_result>>
    /\ UNCHANGED <<appVars, lockVars, taskVars, doc_id, records_read, rows_seen>>

\* parse_csv_file, lines 184-204: the next record
LoadCsvRecord ==
    /\ l_pc = "csv"
    /\ records_read < MaxRecords
    /\ \E result \in RecordResults :
          LET acc == CsvRecordStep(ParseOk(documents, doc_id), Unwrap(filename),
                                   headers, row_idx, result)
          IN  IF acc.err
              THEN LoadFailed /\ UNCHANGED <<doc_id, rows_seen>>
              ELSE /\ documents' = acc.documents
                   /\ rows_seen' = CountRow(headers, result.fields)
                   /\ doc_id' = acc.doc_id
                   /\ row_idx' = row_idx + 1
                   /\ UNCHANGED <<l_pc, all_documents, filename, headers, sheet_idx, load_result>>
    /\ records_read' = records_read + 1
    /\ UNCHANGED <<appVars, lockVars, taskVars, entries_read>>

\* the records are exhausted: Ok(documents), and all_documents.extend
LoadCsvEnd ==
    /\ l_pc = "csv"
    /\ l_pc' = "dir"
    /\ all_documents' = all_documents \o documents
    /\ documents' = <<>>
    /\ filename' = None
    /\ headers' = <<>>
    /\ row_idx' = 0
    /\ UNCHANGED <<appVars, lockVars, taskVars, doc_id, sheet_idx, entries_read,
                   records_read, load_result, rows_seen>>

\* parse_excel_file, lines 75-87: the next sheet, up to its rows loop
LoadSheet ==
    /\ l_pc = "sheets"
    /\ sheet_idx < Len(SheetNames)
    /\ \E readable \in BOOLEAN, rows \in {<<>>, <<(<<>>)>>, <<(<<"h1", "h2">>)>>} :
          LET sheet == Sheet(SheetNames[sheet_idx + 1], readable, rows)
          IN  IF ExcelSheetStage(sheet) = "Skip"
              THEN /\ sheet_idx' = sheet_idx + 1
                   /\ UNCHANGED <<l_pc, headers, row_idx>>
              ELSE /\ l_pc' = "rows"
                   /\ headers' = Head(sheet.rows)
                   /\ row_idx' = 0
                   /\ UNCHANGED sheet_idx
    /\ UNCHANGED <<appVars, lockVars, taskVars, all_documents, doc_id, documents, filename,
                   entries_read, records_read, load_result, rows_seen>>

\* parse_excel_file, lines 90-117: the next row of the sheet
LoadExcelRow ==
    /\ l_pc = "rows"
    /\ records_read < MaxRecords
    /\ \E values \in SheetRows(headers) :
          LET acc == ExcelRowStep(ParseOk(documents, doc_id), Unwrap(filename),
                                  SheetNames[sheet_idx + 1], headers, row_idx, values)
          IN  /\ documents' = acc.documents
              /\ doc_id' = acc.doc_id
              /\ rows_seen' = CountRow(headers, values)
    /\ row_idx' = row_idx + 1
    /\ records_read' = records_read + 1
    /\ UNCHANGED <<appVars, lockVars, taskVars, l_pc, all_documents, filename, headers,
                   sheet_idx, entries_read, load_result>>

\* the rows of the sheet are exhausted
LoadSheetEnd ==
    /\ l_pc = "rows"
    /\ l_pc' = "sheets"
    /\ sheet_idx' = sheet_idx + 1
    /\ headers' = <<>>
    /\ row_idx' = 0
    /\ UNCHANGED <<appVars, lockVars, taskVars, all_documents, doc_id, documents, filename,
                   entries_read, records_read, load_result, rows_seen>>

\* the sheets are exhausted: Ok(documents), and all_documents.extend
LoadExcelEnd ==
    /\ l_pc = "sheets"
    /\ l_pc' = "dir"
    /\ all_documents' = all_documents \o documents
    /\ documents' = <<>>
    /\ filename' = None
    /\ sheet_idx' = 0
    /\ UNCHANGED <<appVars, lockVars, taskVars, doc_id, headers, row_idx, entries_read,
                   records_read, load_result, rows_seen>>

\* line 60: read_dir is exhausted, Ok(all_documents)
LoadEnd ==
    /\ l_pc = "dir"
    /\ l_pc' = "done"
    /\ load_result' = Some(ParseOk(all_documents, doc_id))
    /\ all_documents' = <<>>
    /\ UNCHANGED <<appVars, lockVars, taskVars, doc_id, documents, filename, headers,
                   sheet_idx, row_idx, entries_read, records_read, rows_seen>>

LoaderNext ==
    \/ LoadStart
    \/ LoadDirEntry
    \/ LoadCsvRecord
    \/ LoadCsvEnd
    \/ LoadSheet
    \/ LoadExcelRow
    \/ LoadSheetEnd
    \/ LoadExcelEnd
    \/ LoadEnd

\* one invocation of load_csvs_from_directory
LoaderSpec == Init /\ [][LoaderNext]_vars

(***************************************************************************)
(* The commands, run concurrently by the Tauri runtime.                    *)
(***************************************************************************)
Next ==
    \/ \E p \in Ingesters : IngestNext(p)
    \/ \E s \in StatusReaders : StatusNext(s)
    \/ \E q \in Askers : AskNext(q)
    \/ \E m \in ModelSetters : SetNext(m)

\* every command, any number of calls of each
Spec == Init /\ [][Next]_vars

\* two ingest_csvs tasks
IngestOnlyNext == \E p \in Ingesters : IngestNext(p)

SpecIngest == Init /\ [][IngestOnlyNext]_vars

\* one ingest_csvs task and the get_status tasks
StatusSideNext ==
    \/ IngestNext("i1")
    \/ \E s \in StatusReaders : StatusNext(s)

SpecStatus == Init /\ [][StatusSideNext]_vars

\* one ingest_csvs task, the ask_question tasks and the set_chat_model tasks
QuerySideNext ==
    \/ IngestNext("i1")
    \/ \E q \in Askers : AskNext(q)
    \/ \E m \in ModelSetters : SetNext(m)

SpecQuery == Init /\ [][QuerySideNext]_vars

\* the four commands over the four locks, one task each, called again and
\* again; every ingest is of a folder that loads, so that it takes its three
\* locks, and every model change is to the same model
LockFolders == {"B"}

LockModels == {"mistral"}

LocksNext ==
    \/ /\ IngestNext("i1")
       /\ ingest'["i1"].folder_path \in {None} \cup {Some(folder) : folder \in LockFolders}
    \/ \E s \in StatusReaders : StatusNext(s)
    \/ \E q \in Askers : AskNext(q)
    \/ \E m \in ModelSetters :
          /\ SetNext(m)
          /\ setter'[m].model_name \in {None} \cup {Some(model) : model \in LockModels}

\* Every service call returns and every lock is fair (tokio's RwLock queues
\* its waiters first in, first out).  A queued writer keeps later readers
\* out, so once it can take the lock it can until it does: a writing call
\* that can go on does go on.  A reader is kept out whenever a writer is
\* queued and is served before the writers queued after it: a reading call
\* that can go on infinitely often does go on.  load_csvs_from_directory
\* is synchronous and takes no lock: it returns.
LocksFairness ==
    /\ []<>(ingest["i1"].pc # "load")
    /\ WF_vars(IngestInstall("i1"))
    /\ \A m \in ModelSetters : WF_vars(SetProgress(m))
    /\ \A s \in StatusReaders : SF_vars(StatusProgress(s))
    /\ \A q \in Askers : SF_vars(AskProgress(q))

SpecLocks == Init /\ [][LocksNext]_vars /\ LocksFairness


(***************************************************************************)
(* Properties                                                              *)
(***************************************************************************)
StatusTriple(r) == <<r.is_indexed, r.document_count, r.data_folder>>

\* C1: a get_status call that overlaps at most one ingest_csvs call returns
\* the triple (is_indexed, document_count, data_folder) that held before
\* that ingest began or the triple that holds once it has finished, never
\* a mix of the two.
C1_StatusSeesOneSnapshot ==
    \A s \in StatusReaders :
        (status[s].pc = "done" /\ status[s].overlap # "many")
            => StatusTriple(Unwrap(status[s].result))
                   \in {Unwrap(status[s].old), Unwrap(status[s].new)}

NoLockHeld == \A l \in Locks : lock_writer[l] = None /\ lock_readers[l] = {}

\* C2: whenever no lock is held, also between the steps of an ingest,
\* document_count is the number of documents of the installed index if one
\* is installed, and is_indexed as get_status computes it is true exactly
\* when an index is installed.
C2_CountMatchesInstalledIndex ==
    NoLockHeld =>
        /\ IsSome(vector_index) => document_count = Len(Unwrap(vector_index).store)
        /\ TripleOf(Snapshot)[1] <=> vector_index # None

Succeeded(p) ==
    /\ ingest[p].pc = "done"
    /\ Unwrap(ingest[p].result).tag = "Ok"
    /\ Unwrap(ingest[p].result).success

\* C3: when two ingest_csvs calls on different non-empty folders have both
\* returned success, the installed index, data_folder and document_count
\* all come from the same one of the two calls.
C3_ConcurrentIngestsInstallOneSnapshot ==
    \A p, q \in Ingesters :
        (/\ p # q
         /\ Succeeded(p)
         /\ Succeeded(q)
         /\ ingest[p].folder_path # ingest[q].folder_path)
            => Snapshot \in {SnapshotOf(Unwrap(ingest[p].folder_path)),
                             SnapshotOf(Unwrap(ingest[q].folder_path))}


Rebuilding(p) == ingest[p].pc \in {"load", "build"}

Installing(p) ==
    ingest[p].pc \in {"lock_index", "write_index", "lock_folder", "write_folder",
                      "lock_count", "write_count"}

HoldsIndexGuard(q) == ask[q].pc \in {"search", "read_model", "generate"}

\* the indexes from_documents can return: every document of a folder
FullyBuilt(index) ==
    \E folder \in Folders : Ingestable(folder) /\ index = SnapshotOf(folder)[1]

PreSnapshot(p) ==
    <<Unwrap(ingest[p].pre)[1], Unwrap(ingest[p].pre)[2], Unwrap(ingest[p].pre)[3]>>

Failed(p) == ingest[p].pc = "done" /\ Unwrap(ingest[p].result).tag = "Err"

\* C5: when an ingest_csvs call has returned an error, vector_index,
\* data_folder and document_count are as they were when it was called
\* (no other ingest having written them meanwhile), and so is
\* selected_model (no set_chat_model having written it meanwhile).
C5_FailedIngestLeavesState ==
    \A p \in Ingesters :
        Failed(p) =>
            /\ ingest[p].clean => Snapshot = PreSnapshot(p)
            /\ ingest[p].model_clean => selected_model = Unwrap(ingest[p].pre)[4]

\* a failed load after a successful ingest, the model having been changed
C5_Witness ==
    \E p \in Ingesters :
        /\ Failed(p)
        /\ Unwrap(ingest[p].result).error = "load"
        /\ ingest[p].clean
        /\ ingest[p].model_clean
        /\ IsSome(Unwrap(ingest[p].pre)[1])
        /\ selected_model = "mistral"

\* the call of p is on a folder that loads to zero documents
LoadsNothing(p) ==
    /\ ingest[p].pc = "done"
    /\ ~Loaded[Unwrap(ingest[p].folder_path)].err
    /\ Loaded[Unwrap(ingest[p].folder_path)].documents = <<>>

C7_NotIndexedOnlyWhenEmpty ==
    \A q \in Askers :
        ask[q].pc = "done" =>
            LET r == Unwrap(ask[q].result)
            IN  /\ vector_index = None => r = AskErr("not_indexed")
                /\ r.error = "not_indexed" => ~ask[q].contacted
                /\ ask[q].after_ingest =>
                      /\ r.error # "not_indexed"
                      /\ r.tag = "Err" => (r.error \in {"search", "generate"} /\ ask[q].contacted)
                      /\ r.tag = "Ok" =>
                            \/ r.answer = "generated" /\ r.sources # <<>>
                            \/ r = AskOk("no_relevant_information", <<>>)

\* a query answered after an ingest, the ingest task having returned
C7_Witness ==
    \E q \in Askers :
        /\ ask[q].pc = "done"
        /\ ask[q].after_ingest
        /\ Unwrap(ask[q].result).tag = "Ok"
        /\ \A p \in Ingesters : ingest[p].pc = "idle"

RECURSIVE SeqRange(_)
SeqRange(seq) == IF seq = <<>> THEN {} ELSE {Head(seq)} \cup SeqRange(Tail(seq))

\* C8: when an ingest_csvs of folder B has returned success, the snapshot
\* of a successful ingest of another folder A having been in place when it
\* was called and no other ingest having written meanwhile, the installed
\* index holds exactly the documents of B, data_folder is B, document_count
\* is the number of documents of B, and no document or source of A is left.
C8_ReingestReplacesEverything ==
    \A p \in Ingesters :
        \A A \in Folders :
            (/\ Succeeded(p)
             /\ ingest[p].clean
             /\ Ingestable(A)
             /\ Some(A) # ingest[p].folder_path
             /\ PreSnapshot(p) = SnapshotOf(A))
                => LET B == Unwrap(ingest[p].folder_path)
                       before == SeqRange(Loaded[A].documents)
                       now == SeqRange(Unwrap(vector_index).store)
                   IN  /\ Unwrap(vector_index).store = MapEmbeddable(Loaded[B].documents)
                       /\ data_folder = Some(B)
                       /\ document_count = Len(Loaded[B].documents)
                       /\ now \cap before = {}
                       /\ {SourceString(d) : d \in now} \cap {SourceString(d) : d \in before} = {}

\* folder B ingested after folder A
C8_Witness ==
    \E p \in Ingesters :
        /\ Succeeded(p)
        /\ ingest[p].clean
        /\ PreSnapshot(p) = SnapshotOf("A")
        /\ ingest[p].folder_path = Some("B")
        /\ \A q \in Ingesters \ {p} : ingest[q].pc = "idle"

\* the task p takes a step of ingest_csvs
IngestSteps(p) ==
    \/ ingest'[p].pc # ingest[p].pc
    \/ ingest'[p].embedded # ingest[p].embedded

\* C9: set_chat_model returns Ok, its write sets selected_model to the name
\* given and no step of it changes vector_index, data_folder or
\* document_count; no step of ingest_csvs changes selected_model.
C9_ModelSelectionIsIndependent ==
    [][/\ \A m \in ModelSetters :
             /\ setter'[m] # setter[m] => UNCHANGED <<vector_index, data_folder, document_count>>
             /\ (setter[m].pc # "done" /\ setter'[m].pc = "done") =>
                   /\ setter'[m].result = Some("Ok")
                   /\ selected_model' = Unwrap(setter[m].model_name)
       /\ \A p \in Ingesters : IngestSteps(p) => selected_model' = selected_model]_vars

\* the model changed while an index is installed
C9_Witness ==
    \E m \in ModelSetters :
        /\ setter[m].pc = "done"
        /\ setter[m].result = Some("Ok")
        /\ selected_model = "mistral"
        /\ IsSome(vector_index)
        /\ document_count > 0

\* C10: the documents load_csvs_from_directory returns carry the ids
\* doc_0, doc_1, ... in the order of the result: the document at position i
\* (counting from 0) has id number i.
C10_IdsAreContiguous ==
    (l_pc = "done" /\ ~Unwrap(load_result).err) =>
        LET docs == Unwrap(load_result).documents
        IN  \A i \in 1..Len(docs) : docs[i].id = DocIdString(i - 1)

\* two documents from two files or sheets, a row skipped, three entries read
C10_Witness ==
    /\ l_pc = "done"
    /\ ~Unwrap(load_result).err
    /\ Len(Unwrap(load_result).documents) = 2
    /\ Unwrap(load_result).documents[1].row_number = Unwrap(load_result).documents[2].row_number
    /\ entries_read = MaxEntries
    /\ records_read = 3

\* C11: when load_csvs_from_directory returns Ok, the number of documents
\* (documents_ingested) is the number of data rows read, over all files and
\* sheets, that have a non-blank field, ragged rows included.
C11_OneDocumentPerNonBlankRow ==
    (l_pc = "done" /\ ~Unwrap(load_result).err) =>
        Len(Unwrap(load_result).documents) = rows_seen.nonblank

\* C11, as amended: when load_csvs_from_directory returns Ok, the number of
\* documents is the number of data rows read that have a non-blank field at
\* a position that has a header; a row that is blank at every header
\* position yields no document, whatever it holds past the last header.
C11_OneDocumentPerLabelledRow ==
    (l_pc = "done" /\ ~Unwrap(load_result).err) =>
        Len(Unwrap(load_result).documents) = rows_seen.labelled

\* a load of three rows: one yields a document, one is non-blank only past
\* the last header
C11_Witness ==
    /\ l_pc = "done"
    /\ ~Unwrap(load_result).err
    /\ records_read = 3
    /\ Len(Unwrap(load_result).documents) = 1
    /\ rows_seen.labelled = 1
    /\ rows_seen.nonblank = 2

\* C12: an ask_question whose search retrieved nothing returns the fixed
\* no-relevant-information answer with no citation and has not called the
\* generation service; an ask_question that retrieved documents has called
\* it, and when it returns an answer its citations are one per retrieved
\* document, in the order retrieved.
C12_CitationsFollowRetrieved ==
    \A q \in Askers :
        (ask[q].pc = "done" /\ IsSome(ask[q].retrieved)) =>
            LET docs == Unwrap(ask[q].retrieved)
                r == Unwrap(ask[q].result)
            IN  /\ docs = <<>> =>
                      /\ r = AskOk("no_relevant_information", <<>>)
                      /\ ~ask[q].prompted
                /\ docs # <<>> =>
                      /\ ask[q].prompted
                      /\ r.tag = "Ok" =>
                            /\ Len(r.sources) = Len(docs)
                            /\ \A i \in 1..Len(docs) :
                                  /\ r.sources[i].source_file = docs[i].source_file
                                  /\ r.sources[i].row = docs[i].row_number

\* an answer that cites two retrieved documents, the later row first
C12_Witness ==
    \E q \in Askers :
        /\ ask[q].pc = "done"
        /\ IsSome(ask[q].retrieved)
        /\ Len(Unwrap(ask[q].retrieved)) = 2
        /\ Unwrap(ask[q].result).tag = "Ok"
        /\ Unwrap(ask[q].retrieved)[1].row_number > Unwrap(ask[q].retrieved)[2].row_number

\* a search that retrieved nothing from an installed index
C12_WitnessNothingRetrieved ==
    \E q \in Askers :
        /\ ask[q].pc = "done"
        /\ ask[q].retrieved = Some(<<>>)
        /\ IsSome(vector_index)

\* C13: an ingest_csvs call on a folder in which a supported file, a record
\* or a sheet cannot be read returns an error: it never returns Ok, still
\* less installs an index without the part that could not be read.
C13_UnreadablePartAbortsIngest ==
    \A p \in Ingesters :
        (ingest[p].pc = "done" /\ UnreadablePart(FS(Unwrap(ingest[p].folder_path))))
            => Unwrap(ingest[p].result).tag = "Err"

\* the task holds a guard of the lock
Holds(task, lock) == lock_writer[lock] = Some(task) \/ task \in lock_readers[lock]

\* the task is in lock.read().await or lock.write().await
WaitsFor(task, lock) ==
    \/ /\ task \in Ingesters
       /\ \/ lock = "vector_index" /\ ingest[task].pc = "lock_index"
          \/ lock = "data_folder" /\ ingest[task].pc = "lock_folder"
          \/ lock = "document_count" /\ ingest[task].pc = "lock_count"
    \/ /\ task \in StatusReaders
       /\ \/ lock = "vector_index" /\ status[task].pc = "read_index"
          \/ lock = "document_count" /\ status[task].pc = "read_count"
          \/ lock = "data_folder" /\ status[task].pc = "read_folder"
          \/ lock = "selected_model" /\ status[task].pc = "read_model"
    \/ /\ task \in Askers
       /\ \/ lock = "vector_index" /\ ask[task].pc = "lock_index"
          \/ lock = "selected_model" /\ ask[task].pc = "read_model"
    \/ /\ task \in ModelSetters
       /\ lock = "selected_model" /\ setter[task].pc = "lock_model"

Tasks == Ingesters \cup StatusReaders \cup Askers \cup ModelSetters

\* a task that holds one lock and holds or awaits another is an ask_question
\* with the read guard of vector_index, at selected_model
OnlyAskHoldsTwo ==
    \A task \in Tasks : \A l1, l2 \in Locks :
        (l1 # l2 /\ Holds(task, l1) /\ (Holds(task, l2) \/ WaitsFor(task, l2)))
            => /\ task \in Askers
               /\ l1 = "vector_index"
               /\ task \in lock_readers[l1]
               /\ l2 = "selected_model"

\* the calls between entry and return value
Running ==
    {p \in Ingesters : ingest[p].pc \notin {"idle", "done"}}
    \cup {s \in StatusReaders : status[s].pc \notin {"idle", "done"}}
    \cup {q \in Askers : ask[q].pc \notin {"idle", "done"}}
    \cup {m \in ModelSetters : setter[m].pc \notin {"idle", "done"}}

\* one of the running calls can take its next step
SomeRunningCallCanStep ==
    Running # {} =>
        \/ \E m \in ModelSetters : ENABLED SetProgress(m)
        \/ \E s \in StatusReaders : ENABLED StatusProgress(s)
        \/ \E q \in Askers : ENABLED AskProgress(q)
        \/ \E p \in Ingesters : ENABLED IngestProgress(p)

\* C14: under every interleaving of ingest_csvs, get_status, ask_question
\* and set_chat_model, with fair locks and service calls that return: only
\* ask_question holds two locks at once (vector_index read, then
\* selected_model read), the running calls are never all blocked, and every
\* call comes to its return value.  A call leaves its running positions
\* only by its return value ("done"), so it returns whenever it is called
\* exactly when it is not running for ever: again and again it is idle or
\* done.
C14_NoDeadlockEveryCallReturns ==
    /\ [](OnlyAskHoldsTwo /\ SomeRunningCallCanStep)
    /\ []<>(ingest["i1"].pc \in {"idle", "done"})
    /\ \A s \in StatusReaders : []<>(status[s].pc \in {"idle", "done"})
    /\ \A q \in Askers : []<>(ask[q].pc \in {"idle", "done"})
    /\ \A m \in ModelSetters : []<>(setter[m].pc \in {"idle", "done"})

\* every lock contended at once: ask_question holds the read guard of
\* vector_index and awaits selected_model, which set_chat_model holds;
\* ingest_csvs is queued to write vector_index and get_status waits behind it
C14_Witness ==
    \E q \in Askers, m \in ModelSetters, p \in Ingesters, s \in StatusReaders :
        /\ ask[q].pc = "read_model"
        /\ q \in lock_readers["vector_index"]
        /\ lock_writer["selected_model"] = Some(m)
        /\ ingest[p].pc = "lock_index"
        /\ status[s].pc = "read_index"

====
